---- MODULE Spec2Model ----
(***************************************************************************)
(* jpg2png: the batch conversion engine of scripts/main.py and             *)
(* jpg2png/converter.py as a state machine.                                *)
(*                                                                         *)
(*   main thread   main(): pre-flight, executor and scaler start, submit   *)
(*                 of every file, as_completed collection, summary         *)
(*   workers       threads of the ThreadPoolExecutor running               *)
(*                 Converter.convert, one loop iteration per step          *)
(*   scaler        the daemon thread running dynamic_thread_adjustment     *)
(*   signals       SIGINT / SIGTERM, whose handlers set shutdown_event     *)
(*                                                                         *)
(* The image library is opaque: one call of the open/enhance/resize/save   *)
(* pipeline of an attempt either completes, raises IOError/OSError, or     *)
(* raises another Exception.  improve and upscale only decide which opaque *)
(* calls lie between open and save, and retry_delay only how long a failed *)
(* attempt sleeps, so none of the three is state of the model.             *)
(***************************************************************************)
EXTENDS Integers, Sequences, FiniteSets, TLC

\* ------------------------------------------------------------------ bounds
MaxJobs == 2        \* most files file_generator yields
MaxRetries == 2     \* largest --retries
CpuCount == 2       \* os.cpu_count() of the machine
SmallThreshold == 1 \* a threshold small enough for a short batch to exceed
MaxDirs == 2        \* directories os.walk visits under args.directory
MaxStems == 2       \* different file names without their extension

\* The default of the threshold parameter of dynamic_thread_adjustment,
\* which is what main() runs the scaler with.
DefaultThreshold == 10

VARIABLES
    \* inputs, fixed for a run
    files,           \* len(jpg_files)
    threads,         \* args.threads: <<n>> for an int n, <<>> for None
    retries,         \* Converter.retries
    dry_run,         \* Converter.dry_run
    threshold,       \* threshold of dynamic_thread_adjustment
    \* the files: each a record [dir, stem, ext], its directory, its name
    \* without the extension, and its extension
    tree,            \* the files under args.directory
    visited,         \* files file_generator has looked at so far
    jpg_files,       \* the list of line 59, as far as it is generated
    png_paths,       \* png_path of convert for the files of jpg_files
    \* main()
    mainPc,          \* "walk", "preflight", "submit", "collect", "report",
                     \* "exited"
    submitted,       \* how many files line 97 has submitted so far
    collected,       \* futures as_completed has yielded to the loop body
    success_count,
    failure_count,
    task_queue,      \* the Queue of line 87: the results put so far
    mainLog,         \* what main() has logged
    exit_status,     \* <<>> while the process runs, <<n>> once it exited with n
    \* ThreadPoolExecutor
    max_workers,     \* executor._max_workers (0: no executor yet)
    num_workers,     \* len(executor._threads)
    idle,            \* executor._idle_semaphore
    work_queue,      \* executor._work_queue: jobs not yet taken by a worker
    \* one Future and one call of convert per file
    fut,             \* "unsubmitted", "pending", "running", "finished",
                     \* or "raised" when the call ended in an exception
    result,          \* the value convert returned (meaningful when finished)
    attempt,         \* local attempt of convert
    calls,           \* outcome of every pipeline invocation of the job so far
    saves,           \* completed img.save calls: writes of the output file
    log,             \* messages convert logged for the job
    \* scaler thread and signals
    scalerPc,        \* "unstarted", "while", "sleep", "returned", "killed"
    net_ticks,       \* history: ticks that took the += 1 branch minus ticks
                     \* that took the -= 1 branch
    shutdown_event

pathVars == <<tree, visited, jpg_files, png_paths>>
inputVars == <<files, threads, retries, dry_run, threshold, pathVars>>
mainVars == <<mainPc, submitted, collected, success_count, failure_count,
              task_queue, mainLog, exit_status>>
poolVars == <<max_workers, num_workers, idle, work_queue>>
jobVars == <<fut, result, attempt, calls, saves, log>>
scalerVars == <<scalerPc, net_ticks>>
vars == <<inputVars, mainVars, poolVars, jobVars, scalerVars, shutdown_event>>

Jobs == 1..files
AllJobs == 1..MaxJobs

\* args.threads as the argument parser can deliver it: None, or a positive
\* int that may exceed the cpu count
ThreadArgs == {<<>>} \cup {<<n>> : n \in 1..(CpuCount + 1)}

\* file names: the extensions told apart, and every file the tree can hold
Extensions == {".jpg", ".JPG", ".txt"}
AllFiles == [dir : 1..MaxDirs, stem : 1..MaxStems, ext : Extensions]
Trees == {t \in SUBSET AllFiles : Cardinality(t) <= MaxJobs}

\* ------------------------------------------------------------ pure helpers

\* utils.py 49: str.lower on the extension of a file name
Lower(e) == IF e = ".JPG" THEN ".jpg" ELSE e

\* utils.py 49: file.lower().endswith(extension)
Matches(f, extension) == Lower(f.ext) = extension

\* converter.py 46-47: the base name without its extension, ".png"
\* appended, joined to the one output directory
PngPath(f) == [dir |-> "output_directory", stem |-> f.stem, ext |-> ".png"]

\* the i-th of n files with different names in one directory
PlainFile(i) == [dir |-> 1, stem |-> i, ext |-> ".jpg"]

\* main.py 64-66: args.threads if it is an int, else os.cpu_count()
NumThreads(t) == IF Len(t) = 1 THEN t[1] ELSE CpuCount

\* main.py 60: the test for an empty file list
HasFiles(n) == n > 0

\* converter.py 54: the loop condition of convert
RetryLoopDoWhile(a, r) == a = 0 \/ a < r
RetryLoopOneFewer(a, r) == a + 1 < r
RetryLoopOneMore(a, r) == a <= r
RetryLoopCond(a, r) == a < r

\* converter.py 71: attempt += 1
NextAttempt(a) == a + 1

\* converter.py 50: the dry-run test
DryRunOff(d) == FALSE
IsDryRun(d) == d

\* converter.py 70, 76: the except clause that catches a failed invocation:
\* (IOError, OSError) retries, any other Exception breaks
RetryAnyError(o) == o # "ok"
Retryable(o) == o = "transient"

\* main.py 102-105: the counters after a collected result r
TallyDropsFailure(sc, fc, r) == IF r THEN <<sc + 1, fc>> ELSE <<sc, fc>>
TallySwapped(sc, fc, r) == IF r THEN <<sc, fc + 1>> ELSE <<sc + 1, fc>>
Tally(sc, fc, r) == IF r THEN <<sc + 1, fc>> ELSE <<sc, fc + 1>>

\* main.py 81-82: what shutdown_event.set() leaves in the flag
EventToggle(ev) == ~ev
EventSet(ev) == TRUE

\* main.py 33: the loop condition of the scaler
ScalerLoopCond(ev) == ~ev

\* main.py 37, 40: the branch one tick takes: 1 for the if (line 38 runs),
\* -1 for the elif (line 41 runs), 0 when neither test holds
TickBranch(cap, qs, thr, cpu) ==
    IF qs > thr /\ cap < cpu THEN 1
    ELSE IF qs < thr /\ cap > 1 THEN -1
    ELSE 0

\* main.py 37-42: the capacity after one tick that sampled depth qs
ScalerStepResets(cap, qs, thr, cpu) ==
    IF qs > thr /\ cap < cpu THEN cap + 1
    ELSE IF qs < thr /\ cap > 1 THEN 1
    ELSE cap
ScalerStepAtThreshold(cap, qs, thr, cpu) ==
    IF qs >= thr /\ cap < cpu THEN cap + 1
    ELSE IF qs < thr /\ cap > 1 THEN cap - 1
    ELSE cap
ScalerStepNoCeiling(cap, qs, thr, cpu) ==
    IF qs > thr THEN cap + 1
    ELSE IF qs < thr /\ cap > 1 THEN cap - 1
    ELSE cap
ScalerStep(cap, qs, thr, cpu) ==
    IF qs > thr /\ cap < cpu THEN cap + 1
    ELSE IF qs < thr /\ cap > 1 THEN cap - 1
    ELSE cap

\* main.py 94: the scaler thread is a daemon, so interpreter exit ends it
ScalerNotDaemon == FALSE
ScalerDaemon == TRUE

\* converter.py 57-64: how one invocation of the pipeline can end: it
\* completes, open/enhance/resize/save raises IOError or OSError, or one of
\* them raises another Exception
Outcomes == {"ok", "transient", "fatal"}

Active == Cardinality({j \in Jobs : fut[j] = "running"})
Finished(j) == fut[j] = "finished"

\* main.py 98: the futures as_completed yields are those that are done,
\* with a result or with an exception
Done(j) == fut[j] \in {"finished", "raised"}

\* converter.py 76: the except clause that catches what line 70 did not
AbsorbsNothing(o) == FALSE
Absorbed(o) == o = "fatal"

\* main.py 101: task_queue.put(result)
QueueKeepsLast(q, r) == <<r>>
QueuePut(q, r) == Append(q, r)

\* converter.py 72-83: the kind of failure convert reported for job j, as
\* its log lines tell it (the return value is a bare bool): line 77 is
\* logged for a non-recoverable error only, line 80 for every failure
ErrorKind(j) ==
    IF "non_recoverable" \in log[j] THEN "NonRecoverable"
    ELSE IF "failed" \in log[j] THEN "RetriesExhausted"
    ELSE "None"

\* main.py 90: the executor exists from StartBatch on
ExecutorBuilt == files > 0 /\ mainPc # "preflight"

\* -------------------------------------------------------------------- Init
\* main.py 84-87 and the state before any thread has run
ProgramStart ==
    /\ submitted = 0
    /\ collected = {}
    /\ success_count = 0
    /\ failure_count = 0
    /\ task_queue = <<>>
    /\ mainLog = {}
    /\ exit_status = <<>>
    /\ max_workers = 0
    /\ num_workers = 0
    /\ idle = 0
    /\ work_queue = <<>>
    /\ fut = [j \in AllJobs |-> "unsubmitted"]
    /\ result = [j \in AllJobs |-> FALSE]
    /\ attempt = [j \in AllJobs |-> 0]
    /\ calls = [j \in AllJobs |-> <<>>]
    /\ saves = [j \in AllJobs |-> 0]
    /\ log = [j \in AllJobs |-> {}]
    /\ scalerPc = "unstarted"
    /\ net_ticks = 0
    /\ shutdown_event = FALSE

\* The batch: main() after line 59 has listed the files, here files of
\* different names in one directory.
Init ==
    /\ files \in 0..MaxJobs
    /\ threads \in ThreadArgs
    /\ retries \in 0..MaxRetries
    /\ dry_run \in BOOLEAN
    /\ threshold \in {SmallThreshold, DefaultThreshold}
    /\ jpg_files = [i \in 1..files |-> PlainFile(i)]
    /\ tree = {PlainFile(i) : i \in 1..files}
    /\ visited = tree
    /\ png_paths = <<>>
    /\ mainPc = "preflight"
    /\ ProgramStart

\* Input enumeration: main() at line 59, over any tree of files.
PathInit ==
    /\ tree \in Trees
    /\ visited = {}
    /\ jpg_files = <<>>
    /\ png_paths = <<>>
    /\ files = 0
    /\ threads = <<>>
    /\ retries = 0
    /\ dry_run = FALSE
    /\ threshold = DefaultThreshold
    /\ mainPc = "walk"
    /\ ProgramStart

\* ------------------------------------------------------- input enumeration

\* utils.py 47-50: file_generator looks at the next file of the walk and
\* yields it when its lower-cased name ends with ".jpg".  os.walk fixes no
\* order among the files.
GenYield(f) ==
    /\ mainPc = "walk"
    /\ f \in tree \ visited
    /\ visited' = visited \cup {f}
    /\ jpg_files' = IF Matches(f, ".jpg") THEN Append(jpg_files, f)
                                          ELSE jpg_files
    /\ UNCHANGED <<files, threads, retries, dry_run, threshold, tree,
                   png_paths, mainVars, poolVars, jobVars, scalerVars,
                   shutdown_event>>

\* main.py 59: the generator is exhausted and the list is complete
GenDone ==
    /\ mainPc = "walk"
    /\ visited = tree
    /\ files' = Len(jpg_files)
    /\ mainPc' = "preflight"
    /\ UNCHANGED <<threads, retries, dry_run, threshold, pathVars, submitted,
                   collected, success_count, failure_count, task_queue,
                   mainLog, exit_status, poolVars, jobVars, scalerVars,
                   shutdown_event>>

\* converter.py 46-47: convert derives the output path of the next listed
\* file
DerivePath ==
    /\ mainPc = "preflight"
    /\ Len(png_paths) < Len(jpg_files)
    /\ png_paths' = Append(png_paths, PngPath(jpg_files[Len(png_paths) + 1]))
    /\ UNCHANGED <<files, threads, retries, dry_run, threshold, tree,
                   visited, jpg_files, mainVars, poolVars, jobVars,
                   scalerVars, shutdown_event>>

\* ------------------------------------------------------------------ main()

\* main.py 59-62: no .jpg file: log an error and sys.exit(0)
NoFiles ==
    /\ mainPc = "preflight"
    /\ ~HasFiles(files)
    /\ mainLog' = mainLog \cup {"error: no_files"}
    /\ exit_status' = <<0>>
    /\ mainPc' = "exited"
    /\ UNCHANGED <<inputVars, submitted, collected, success_count,
                   failure_count, task_queue, poolVars, jobVars, scalerVars,
                   shutdown_event>>

\* main.py 64-95: signal handlers registered, counters zeroed, the executor
\* built with max_workers = num_threads, the scaler thread started
StartBatch ==
    /\ mainPc = "preflight"
    /\ HasFiles(files)
    /\ max_workers' = NumThreads(threads)
    /\ scalerPc' = "while"
    /\ mainPc' = "submit"
    /\ UNCHANGED <<inputVars, submitted, collected, success_count,
                   failure_count, task_queue, mainLog, exit_status,
                   num_workers, idle, work_queue, jobVars, net_ticks,
                   shutdown_event>>

\* main.py 97: executor.submit of the next file.  submit queues the work
\* item and adjusts the thread count: an idle worker is reused, else a
\* thread is added while len(_threads) < _max_workers.
Submit ==
    /\ mainPc = "submit"
    /\ submitted < files
    /\ LET j == submitted + 1 IN
        /\ fut' = [fut EXCEPT ![j] = "pending"]
        /\ work_queue' = Append(work_queue, j)
    /\ submitted' = submitted + 1
    /\ IF idle > 0
         THEN idle' = idle - 1 /\ num_workers' = num_workers
         ELSE /\ idle' = idle
              /\ num_workers' = IF num_workers < max_workers
                                  THEN num_workers + 1 ELSE num_workers
    /\ UNCHANGED <<inputVars, mainPc, collected, success_count, failure_count,
                   task_queue, mainLog, exit_status, max_workers, result,
                   attempt, calls, saves, log, scalerVars, shutdown_event>>

\* main.py 97-98: every file submitted, as_completed starts
SubmitDone ==
    /\ mainPc = "submit"
    /\ submitted = files
    /\ mainPc' = "collect"
    /\ UNCHANGED <<inputVars, submitted, collected, success_count,
                   failure_count, task_queue, mainLog, exit_status, poolVars,
                   jobVars, scalerVars, shutdown_event>>

\* main.py 98-108: as_completed yields a done future.  Its result goes to
\* task_queue and is counted (99-105); if future.result() raises, nothing
\* is put and a failure is counted (106-108).
Collect(j) ==
    /\ mainPc = "collect"
    /\ Done(j)
    /\ j \notin collected
    /\ collected' = collected \cup {j}
    /\ IF Finished(j)
         THEN /\ task_queue' = QueuePut(task_queue, result[j])
              /\ success_count' =
                     Tally(success_count, failure_count, result[j])[1]
              /\ failure_count' =
                     Tally(success_count, failure_count, result[j])[2]
         ELSE /\ failure_count' = failure_count + 1
              /\ UNCHANGED <<task_queue, success_count>>
    /\ UNCHANGED <<inputVars, mainPc, submitted, mainLog, exit_status,
                   poolVars, jobVars, scalerVars, shutdown_event>>

\* main.py 98, 90: the loop ends when every future was yielded, and the
\* with block shuts the executor down, joining its workers
ExitWith ==
    /\ mainPc = "collect"
    /\ collected = Jobs
    /\ mainPc' = "report"
    /\ num_workers' = 0
    /\ idle' = 0
    /\ UNCHANGED <<inputVars, submitted, collected, success_count,
                   failure_count, task_queue, mainLog, exit_status,
                   max_workers, work_queue, jobVars, scalerVars,
                   shutdown_event>>

\* main.py 113-116, 120: the summary is logged, main returns and the
\* interpreter exits, which ends a daemon thread
Report ==
    /\ mainPc = "report"
    /\ mainLog' = mainLog \cup {"summary"}
    /\ exit_status' = <<0>>
    /\ mainPc' = "exited"
    /\ scalerPc' = IF ScalerDaemon /\ scalerPc # "returned"
                     THEN "killed" ELSE scalerPc
    /\ UNCHANGED <<inputVars, submitted, collected, success_count,
                   failure_count, task_queue, poolVars, jobVars, net_ticks,
                   shutdown_event>>

\* ----------------------------------------------------------------- workers

\* A free worker thread takes the oldest work item and calls convert
\* (converter.py 46-48).  Nothing here reads shutdown_event or _max_workers.
StartJob ==
    /\ work_queue # <<>>
    /\ Active < num_workers
    /\ fut' = [fut EXCEPT ![Head(work_queue)] = "running"]
    /\ work_queue' = Tail(work_queue)
    /\ UNCHANGED <<inputVars, mainVars, max_workers, num_workers, idle, result,
                   attempt, calls, saves, log, scalerVars,
                   shutdown_event>>

\* the worker is done with the item: the future is set and the idle
\* semaphore released
Return(j, value, messages) ==
    /\ fut' = [fut EXCEPT ![j] = "finished"]
    /\ result' = [result EXCEPT ![j] = value]
    /\ log' = [log EXCEPT ![j] = @ \cup messages]
    /\ idle' = idle + 1

\* an exception leaves convert: the future holds it and the worker is idle
Raise(j) ==
    /\ fut' = [fut EXCEPT ![j] = "raised"]
    /\ idle' = idle + 1
    /\ UNCHANGED <<result, log>>

\* converter.py 50-52
ConvertDryRun(j) ==
    /\ fut[j] = "running"
    /\ IsDryRun(dry_run)
    /\ Return(j, TRUE, {"dry_run"})
    /\ UNCHANGED <<inputVars, mainVars, max_workers, num_workers, work_queue,
                   attempt, calls, saves, scalerVars, shutdown_event>>

\* converter.py 54-78: one iteration of the retry loop.  Success returns
\* True (69); IOError/OSError counts an attempt, logs and sleeps (70-75);
\* any other Exception logs, breaks and falls to the failure return (76-83).
ConvertAttempt(j, o) ==
    /\ fut[j] = "running"
    /\ ~IsDryRun(dry_run)
    /\ RetryLoopCond(attempt[j], retries)
    /\ calls' = [calls EXCEPT ![j] = Append(@, o)]
    /\ saves' = [saves EXCEPT ![j] = IF o = "ok" THEN @ + 1 ELSE @]
    /\ IF o = "ok"
         THEN /\ Return(j, TRUE, {"converted"})
              /\ UNCHANGED attempt
         ELSE IF Retryable(o)
         THEN /\ attempt' = [attempt EXCEPT ![j] = NextAttempt(@)]
              /\ log' = [log EXCEPT ![j] = @ \cup {"attempt_failed"}]
              /\ UNCHANGED <<fut, result, idle>>
         ELSE IF Absorbed(o)
         THEN /\ Return(j, FALSE, {"non_recoverable", "failed"})
              /\ UNCHANGED attempt
         ELSE /\ Raise(j)
              /\ UNCHANGED attempt
    /\ UNCHANGED <<inputVars, mainVars, max_workers, num_workers, work_queue,
                   scalerVars, shutdown_event>>

\* converter.py 54, 80-83: the loop condition fails: log and return False
ConvertExhausted(j) ==
    /\ fut[j] = "running"
    /\ ~IsDryRun(dry_run)
    /\ ~RetryLoopCond(attempt[j], retries)
    /\ Return(j, FALSE, {"failed"})
    /\ UNCHANGED <<inputVars, mainVars, max_workers, num_workers, work_queue,
                   attempt, calls, saves, scalerVars, shutdown_event>>

\* ------------------------------------------------------------------ scaler

\* main.py 33: the while test
ScalerLoop ==
    /\ scalerPc = "while"
    /\ scalerPc' = IF ScalerLoopCond(shutdown_event) THEN "sleep" ELSE "returned"
    /\ UNCHANGED <<inputVars, mainVars, poolVars, jobVars, net_ticks,
                   shutdown_event>>

\* main.py 34-42: one tick: sleep, sample the queue size, adjust
\* executor._max_workers by at most one.  queue_size is a local that each
\* tick writes before it reads, and this thread alone writes _max_workers,
\* so the tick is one step and the sample is no state.
ScalerTick ==
    /\ scalerPc = "sleep"
    /\ LET queue_size == Len(task_queue) IN
         /\ max_workers' =
                ScalerStep(max_workers, queue_size, threshold, CpuCount)
         /\ net_ticks' = net_ticks
                + TickBranch(max_workers, queue_size, threshold, CpuCount)
    /\ scalerPc' = "while"
    /\ UNCHANGED <<inputVars, mainVars, num_workers, idle, work_queue, jobVars,
                   shutdown_event>>

\* ----------------------------------------------------------------- signals

\* main.py 80-82: SIGINT or SIGTERM, once the handlers are registered:
\* the handler sets shutdown_event and does nothing else
Signal ==
    /\ mainPc \in {"submit", "collect", "report"}
    /\ shutdown_event' = EventSet(shutdown_event)
    /\ UNCHANGED <<inputVars, mainVars, poolVars, jobVars, scalerVars>>

\* ----------------------------------------------------------- specification
MainStep == NoFiles \/ StartBatch \/ Submit \/ SubmitDone
            \/ (\E j \in Jobs : Collect(j)) \/ ExitWith \/ Report

WorkerStep == \/ StartJob
              \/ \E j \in Jobs : ConvertDryRun(j)
              \/ \E j \in Jobs : \E o \in Outcomes : ConvertAttempt(j, o)
              \/ \E j \in Jobs : ConvertExhausted(j)

ScalerStepAction == ScalerLoop \/ ScalerTick

Next == MainStep \/ WorkerStep \/ ScalerStepAction \/ Signal

Spec == Init /\ [][Next]_vars

\* the enumeration of the input files and the output path of each
PathNext == (\E f \in AllFiles : GenYield(f)) \/ GenDone \/ DerivePath
PathSpec == PathInit /\ [][PathNext]_vars

\* The threads are scheduled by the operating system and no step of the
\* model waits for anything but what its guard states, so each thread that
\* can step eventually does.  Signals are not bound to arrive.  Progress of
\* the threads depends neither on how many retries a job may take beyond the
\* first nor on the threshold, so the fair runs are those of main()'s own
\* threshold with at most one retry.
FairInit == Init /\ retries <= 1 /\ threshold = DefaultThreshold
FairSpec == FairInit /\ [][Next]_vars
                     /\ WF_vars(MainStep) /\ WF_vars(WorkerStep)
                     /\ WF_vars(ScalerStepAction)

\* convert runs the same for every job, so its fair runs are taken on
\* batches of at most one file, with every retry count, under main()'s own
\* threshold.
ConvertFairInit == Init /\ files <= 1 /\ threshold = DefaultThreshold
ConvertFairSpec == ConvertFairInit /\ [][Next]_vars
                     /\ WF_vars(MainStep) /\ WF_vars(WorkerStep)
                     /\ WF_vars(ScalerStepAction)

\* ------------------------------------------------------------------ claims

BatchOver == files > 0 /\ mainPc \in {"report", "exited"}
AllTransient(c) == \A i \in 1..Len(c) : c[i] = "transient"

\* C1: whatever the interleaving of workers, scaler ticks and signals, the
\* run ends with one outcome counted per submitted job: every collected
\* future is counted once, and when the batch is over success_count +
\* failure_count equals the number of files, every one of them collected,
\* whether or not shutdown_event was set.
OneOutcomePerJob ==
    /\ success_count + failure_count = Cardinality(collected)
    /\ collected \subseteq {j \in Jobs : Finished(j)}
    /\ BatchOver => /\ collected = Jobs
                    /\ success_count + failure_count = files
    /\ mainPc = "exited" /\ files = 0 => success_count + failure_count = 0

\* C1 witness: a full batch is over, with failures and successes counted,
\* and the shutdown flag was set on the way.
OneOutcomePerJobWitness ==
    /\ BatchOver
    /\ shutdown_event
    /\ files = MaxJobs
    /\ success_count > 0
    /\ failure_count > 0

\* C2: with dry_run off, a job whose every pipeline invocation raised a
\* transient error returns False with the exhausted-retries report after
\* exactly retries invocations; and no job is ever invoked more than
\* retries times.
RetryBound ==
    \A j \in Jobs :
        /\ Len(calls[j]) <= retries
        /\ (Finished(j) /\ ~dry_run /\ AllTransient(calls[j])) =>
              /\ ~result[j]
              /\ Len(calls[j]) = retries
              /\ attempt[j] = retries
              /\ ErrorKind(j) = "RetriesExhausted"

\* C2 witness: a job has failed after MaxRetries transient invocations.
RetryBoundWitness ==
    \E j \in Jobs :
        /\ Finished(j) /\ ~dry_run
        /\ retries = MaxRetries
        /\ Len(calls[j]) = MaxRetries
        /\ AllTransient(calls[j])
        /\ ~result[j]

\* C3: a job whose first pipeline invocation raised a non-transient error
\* returns False after that single invocation, with no retry consumed
\* (attempt is still 0) and with the non-recoverable report, which an
\* exhausted-retries failure never carries.
NonRecoverableShortCircuit ==
    \A j \in Jobs :
        /\ (Finished(j) /\ calls[j] # <<>> /\ calls[j][1] = "fatal") =>
              /\ ~result[j]
              /\ Len(calls[j]) = 1
              /\ attempt[j] = 0
              /\ ErrorKind(j) = "NonRecoverable"
        /\ (Finished(j) /\ ~dry_run /\ AllTransient(calls[j])) =>
              ErrorKind(j) # "NonRecoverable"

\* C3 witness: with more than one retry configured, a job has failed on a
\* non-transient error of its first invocation.
NonRecoverableWitness ==
    \E j \in Jobs :
        /\ retries > 1
        /\ Finished(j)
        /\ calls[j] = <<"fatal">>
        /\ ~result[j]

\* C4: with dry_run on, whatever retries is, no job ever invokes the
\* pipeline, counts an attempt or completes a save, and every finished job
\* returned True.
DryRunNoEffect ==
    dry_run =>
        \A j \in Jobs :
            /\ calls[j] = <<>>
            /\ attempt[j] = 0
            /\ saves[j] = 0
            /\ Finished(j) => (result[j] /\ ErrorKind(j) = "None")

\* C4 witness: a dry run with no retry configured has finished every job of
\* a full batch.
DryRunWitness ==
    /\ dry_run
    /\ retries = 0
    /\ files = MaxJobs
    /\ \A j \in Jobs : Finished(j) /\ result[j] /\ "dry_run" \in log[j]

\* C5: when the batch is over every job has been executed, success_count is
\* the number of jobs whose convert returned True and failure_count the
\* number whose convert returned False; while it runs the counters are
\* those numbers among the collected jobs, in whatever order they finished.
Aggregation ==
    /\ success_count = Cardinality({j \in collected : result[j]})
    /\ failure_count = Cardinality({j \in collected : ~result[j]})
    /\ BatchOver =>
          /\ \A j \in Jobs : Finished(j)
          /\ success_count = Cardinality({j \in Jobs : result[j]})
          /\ failure_count = Cardinality({j \in Jobs : ~result[j]})

\* C5 witness: a batch is over in which the first job failed on transient
\* errors alone, a later job succeeded, and the later one was collected
\* first.
AggregationWitness ==
    /\ BatchOver
    /\ files = MaxJobs
    /\ retries > 0
    /\ ~result[1] /\ AllTransient(calls[1]) /\ Len(calls[1]) = retries
    /\ result[files]
    /\ success_count = files - 1
    /\ failure_count = 1
    /\ Len(task_queue) = files
    /\ task_queue[1] = TRUE

\* C6: once shutdown_event is set, no job that has not started yet is
\* started: a pending job stays pending or is resolved at once as a failed,
\* cancelled outcome that never invoked the pipeline.  (Stated for the
\* threshold main() runs the scaler with.)
CancelNotStarted ==
    [][\A j \in AllJobs :
          (shutdown_event /\ threshold = DefaultThreshold /\ fut[j] = "pending") =>
              \/ fut'[j] = "pending"
              \/ /\ fut'[j] = "finished"
                 /\ ~result'[j]
                 /\ calls'[j] = <<>>
                 /\ "cancelled" \in log'[j]]_vars

\* C7: no scaler tick moves executor._max_workers out of 1..CpuCount: a
\* tick that finds it in the range leaves it in the range, whatever depth
\* it samples.
ScalerKeepsCapacityInRange ==
    [][(scalerPc = "sleep" /\ max_workers \in 1..CpuCount) =>
          max_workers' \in 1..CpuCount]_vars

\* C7 witness: ticks have raised the capacity from below the cpu count to
\* the cpu count, the queue is deeper than the threshold and the scaler is
\* about to tick again.
ScalerAtCeilingWitness ==
    /\ ExecutorBuilt
    /\ NumThreads(threads) < CpuCount
    /\ max_workers = CpuCount
    /\ Len(task_queue) > threshold
    /\ scalerPc = "sleep"

\* C8: from the construction of the executor on, 1 <= _max_workers <=
\* cpu count: a configured thread count above the cpu count is clamped.
CapacityInvariant ==
    ExecutorBuilt => max_workers \in 1..CpuCount

\* C9: every job start happens in a state where fewer jobs are running than
\* the current capacity allows.  (Stated for the threshold main() runs the
\* scaler with.)
StartBelowCapacity ==
    [][\A j \in AllJobs :
          (threshold = DefaultThreshold /\ fut[j] = "pending" /\ fut'[j] = "running")
              => Active < max_workers]_vars

\* C10: once shutdown_event is set, and likewise once the batch is finished
\* with every job resolved, the scaler eventually stops for good: its loop
\* has returned or the exiting interpreter has ended its daemon thread.
ScalerStopped == scalerPc \in {"returned", "killed"}
ScalerTerminates ==
    /\ (shutdown_event \/ mainPc = "report") ~> ScalerStopped
    /\ [][ScalerStopped => (ScalerStopped' /\ max_workers' = max_workers)]_vars

\* C10 witness: a batch finished without any signal, the scaler had ticked
\* during it, and it is stopped.
ScalerStoppedWitness ==
    /\ mainPc = "exited"
    /\ files > 0
    /\ ~shutdown_event
    /\ max_workers # NumThreads(threads)
    /\ ScalerStopped

\* C11: two different input paths that file_generator yields never get the
\* same output path from convert.
UniqueOutputPaths ==
    \A i, k \in 1..Len(png_paths) :
        jpg_files[i] # jpg_files[k] => png_paths[i] # png_paths[k]

\* C12: a run on an empty file list ends through the normal
\* completion path, which reports 0 successes and 0 failures, and logs no
\* error.
EmptyBatchNormalCompletion ==
    (files = 0 /\ mainPc = "exited") =>
        /\ "summary" \in mainLog
        /\ "error: no_files" \notin mainLog
        /\ success_count = 0 /\ failure_count = 0

\* C13: the queue depth the scaler samples is the number of jobs submitted
\* and not yet resolved, so it is 0 once every job has resolved.
BacklogDepth ==
    /\ Len(task_queue) = submitted - Cardinality({j \in Jobs : Finished(j)})
    /\ BatchOver => Len(task_queue) = 0

\* C14: the shutdown flag is false at start, every signal leaves it true,
\* and no step of any thread, a further signal included, takes it from true
\* back to false.
ShutdownOneWay ==
    /\ ~shutdown_event
    /\ [][/\ Signal => shutdown_event'
          /\ shutdown_event => shutdown_event'
          /\ (~shutdown_event /\ shutdown_event') => Signal]_vars

\* C14 witness: the flag was set while jobs were out, and the batch went on
\* to its end with the flag still set and the scaler returned on it.
ShutdownOneWayWitness ==
    /\ shutdown_event
    /\ files = MaxJobs
    /\ mainPc = "exited"
    /\ scalerPc = "returned"

\* C15: no capacity update is lost.  The tick of the one scaler thread is
\* the only step that writes the capacity once the executor is built, so no
\* other write falls between its read and its write, and after any
\* interleaving of ticks with submission and execution the capacity is the
\* initial num_threads plus the ticks that took the increase branch minus
\* the ticks that took the decrease branch.
CapacityUpdatesNotLost ==
    /\ [](ExecutorBuilt => max_workers = NumThreads(threads) + net_ticks)
    /\ [][(ExecutorBuilt /\ max_workers' # max_workers) =>
            /\ scalerPc = "sleep" /\ scalerPc' = "while"
            /\ max_workers' - max_workers = net_ticks' - net_ticks]_vars

\* C15 witness: a decrease was applied while the main thread was still
\* submitting and a worker was inside convert.
CapacityUpdatesWitness ==
    /\ net_ticks < 0
    /\ max_workers = NumThreads(threads) + net_ticks
    /\ mainPc = "submit"
    /\ \E j \in Jobs : fut[j] = "running"

\* C16: a tick that samples depth d with threshold t and capacity c leaves
\* the capacity c + 1 if d > t and c is below cpu_count, c - 1 if d < t and
\* c > 1, and c in every other case, d = t among them; so a tick moves the
\* capacity by at most 1.
ScalerPolicy ==
    [][(scalerPc = "sleep" /\ scalerPc' = "while") =>
          LET d == Len(task_queue)
              t == threshold
              c == max_workers
          IN  /\ (d > t /\ c < CpuCount) => max_workers' = c + 1
              /\ (d < t /\ c > 1) => max_workers' = c - 1
              /\ (~(d > t /\ c < CpuCount) /\ ~(d < t /\ c > 1)) =>
                     max_workers' = c
              /\ d = t => max_workers' = c
              /\ max_workers' - c \in {-1, 0, 1}]_vars

\* C16 witness: a tick has raised the capacity by one on a depth above the
\* threshold, and the scaler is back at its loop test.
ScalerPolicyWitness ==
    /\ scalerPc = "while"
    /\ net_ticks > 0
    /\ Len(task_queue) > threshold
    /\ max_workers = NumThreads(threads) + net_ticks

\* C17: with dry_run off, a job that has had k < retries invocations, all of
\* them transient failures, is still in the loop and can make invocation
\* k + 1; when an invocation succeeds it is the last one the job makes:
\* convert has returned True after k + 1 invocations with attempt = k, it
\* has saved exactly once, and every earlier invocation was a transient
\* failure.
RetrySuccess ==
    \A j \in Jobs :
        /\ (fut[j] = "running" /\ ~dry_run /\ AllTransient(calls[j])
                /\ Len(calls[j]) < retries) =>
              ENABLED ConvertAttempt(j, "ok")
        /\ saves[j] <= 1
        /\ \A i \in 1..Len(calls[j]) :
              calls[j][i] = "ok" =>
                  /\ i = Len(calls[j])
                  /\ \A h \in 1..(i - 1) : calls[j][h] = "transient"
                  /\ Finished(j) /\ result[j]
                  /\ saves[j] = 1
                  /\ attempt[j] = i - 1
                  /\ i <= retries
                  /\ ErrorKind(j) = "None"

\* C17 witness: a job has succeeded on the invocation after a transient
\* failure.
RetrySuccessWitness ==
    \E j \in Jobs :
        /\ Finished(j) /\ ~dry_run /\ result[j]
        /\ calls[j] = <<"transient", "ok">>
        /\ saves[j] = 1

\* C18: whatever open, enhance, resize or save do on each invocation
\* (complete, raise a transient error, raise any other Exception) and
\* whatever the retry count, no call of convert ends in an exception, and
\* every call that has started comes to return True or False.
ErrorAbsorption ==
    /\ [](\A j \in Jobs : fut[j] # "raised")
    /\ \A j \in AllJobs : (fut[j] = "running") ~> (fut[j] = "finished")

\* C18 witness: a call that met a transient and then a non-transient error
\* has returned False.
ErrorAbsorptionWitness ==
    \E j \in Jobs :
        /\ fut[j] = "finished"
        /\ calls[j] = <<"transient", "fatal">>
        /\ ~result[j]

\* C19: with dry_run off and retries = 0, convert never invokes the
\* pipeline, not even when the invocation would succeed, saves nothing, and
\* returns False with the exhausted-retries report.
ZeroRetries ==
    (retries = 0 /\ ~dry_run) =>
        \A j \in Jobs :
            /\ calls[j] = <<>>
            /\ saves[j] = 0
            /\ attempt[j] = 0
            /\ ~ENABLED ConvertAttempt(j, "ok")
            /\ Done(j) => /\ Finished(j)
                          /\ ~result[j]
                          /\ ErrorKind(j) = "RetriesExhausted"

\* C19 witness: with retries = 0 a call of convert has returned False
\* without one invocation.
ZeroRetriesWitness ==
    /\ retries = 0 /\ ~dry_run
    /\ \E j \in Jobs : Finished(j) /\ ~result[j] /\ calls[j] = <<>>

\* C20: task_queue is only appended to: a step leaves it alone or appends
\* one result, so its size never decreases, and the size is the number of
\* futures collected whose result() did not raise; hence once the depth is
\* above the threshold it stays above it and no tick from then on lowers
\* the capacity.
QueueOnlyAppended ==
    /\ [](Len(task_queue) = Cardinality({j \in collected : Finished(j)}))
    /\ [][\/ task_queue' = task_queue
          \/ \E r \in BOOLEAN : task_queue' = Append(task_queue, r)]_vars
    /\ [][Len(task_queue) > threshold =>
             /\ Len(task_queue') > threshold
             /\ max_workers' >= max_workers]_vars

\* C20 witness: every result of a full batch is on the queue, the depth is
\* above the threshold, and a tick has raised the capacity on it.
QueueOnlyAppendedWitness ==
    /\ mainPc = "collect"
    /\ Len(task_queue) = MaxJobs
    /\ Len(task_queue) > threshold
    /\ max_workers > NumThreads(threads)

====
